---- MODULE Spec2Model ----
(***************************************************************************)
(* Model of indelve/main.py: class Indelve, the orchestrator that loads    *)
(* search providers, refreshes them and merges their search results.       *)
(*                                                                         *)
(* The module is Python 2 code (basestring, implicit relative imports), so *)
(* providerInstances is a hash-ordered dict: iterating it yields its keys  *)
(* in an order the language does not tie to insertion order.  The order is *)
(* stable while the dict is not modified, i.e. after construction.         *)
(***************************************************************************)
EXTENDS Integers, Sequences, FiniteSets, TLC

VARIABLES
    modules,            \* environment: what import_module / Provider() do per identifier
    phase,              \* "new" (not constructed), "live", "failed" (__init__ raised)
    providers,          \* the argument given to __init__
    initError,          \* the exception __init__ raised, or "none"
    providerInstances,  \* self.providerInstances: identifier -> instance
    order,              \* iteration order of the providerInstances dict
    loaded,             \* identifiers in the order they were first stored in the dict
    warnings,           \* warn(provider, ProviderLoadWarning) calls, in order
    attempted,          \* identifiers whose import was attempted, in order
    built,              \* identifiers whose Provider() was called, in order
    call                \* the method call in progress/just returned, or NoCall

vars == <<modules, phase, providers, initError, providerInstances, order,
          loaded, warnings, attempted, built, call>>

-----------------------------------------------------------------------------
(* Bounds *)
MaxLen == 2         \* longest provider list passed to __init__
MaxResults == 2     \* most items one provider returns from one search
MaxRelevance == 3   \* relevance values are 1..MaxRelevance

-----------------------------------------------------------------------------
(* Generic helpers *)

Range(s) == {s[i] : i \in 1..Len(s)}

SeqsUpTo(S, n) == UNION {[1..k -> S] : k \in 0..n}

Permutations_(S) ==
    {s \in [1..Cardinality(S) -> S] : \A i, j \in 1..Cardinality(S) : s[i] = s[j] => i = j}

-----------------------------------------------------------------------------
(* The provider package *)

\* indelve.providers.__all__: the manifest of provider identifiers
providerList == <<"files", "applications">>

\* identifiers a caller may pass: the manifest's and one that names no module
Identifiers == Range(providerList) \cup {"nosuch"}

\* What importing "indelve.providers."+provider does, and what Provider() does.
ModuleKinds ==
    {[import |-> "ImportError", ctor |-> "ok"], [import |-> "KeyError", ctor |-> "ok"],
     [import |-> "ok", ctor |-> "ok"], [import |-> "ok", ctor |-> "raises"]}

Environments ==
    {m \in [Identifiers -> ModuleKinds] : m["nosuch"].import = "ImportError"}

import_module(provider) == modules[provider].import

\* the `description` class attribute of a provider: any subset of the two keys
Descriptions ==
    {[short |-> "s", long |-> "l"], [short |-> "s"], [long |-> "l"], <<>>}

-----------------------------------------------------------------------------
(* Python values passed as arguments *)

NoArg == [type |-> "unset", elems |-> <<>>]

ProviderArgs ==
    {[type |-> "NoneType", elems |-> <<>>]}
    \cup {[type |-> t, elems |-> l] : t \in {"list", "tuple"},
                                      l \in SeqsUpTo(Identifiers, MaxLen)}

Queries ==
    {[type |-> t, chars |-> c] : t \in {"str", "unicode"}, c \in {<<>>, <<"q">>}}
    \cup {[type |-> "int", chars |-> <<>>]}

NoQuery == [type |-> "unset", chars |-> <<>>]

-----------------------------------------------------------------------------
(* Dicts *)

EmptyDict == [k \in {} |-> 0]

SetItem(d, k, v) == [x \in DOMAIN d \cup {k} |-> IF x = k THEN v ELSE d[x]]

-----------------------------------------------------------------------------
(* Indelve.__init__ *)

NewLoad == [instances |-> EmptyDict, loaded |-> <<>>, warnings |-> <<>>,
            attempted |-> <<>>, built |-> <<>>, error |-> "none"]

\* except (ImportError, KeyError): line 63
CaughtOnLoad == {"ImportError", "KeyError"}

\* a trip round the loop in which the `continue` of line 65 is missing: the
\* identifier that failed to import is stored in the table all the same
LoadProvider_NoContinue(provider, st) ==
    LET st1 == [st EXCEPT !.attempted = Append(@, provider)]
        st2 == [st1 EXCEPT !.built = Append(@, provider)]
        st3 == IF import_module(provider) # "ok"
               THEN [st2 EXCEPT !.warnings = Append(@, provider)] ELSE st2
    IN IF modules[provider].ctor = "raises"
       THEN [st3 EXCEPT !.error = "ProviderError"]
       ELSE [st3 EXCEPT !.instances = SetItem(@, provider, Len(st3.built)),
                        !.loaded = IF provider \in DOMAIN st.instances
                                   THEN @ ELSE Append(@, provider)]

\* one trip round the loop of lines 59-67, for `provider`, from load state st
LoadProvider(provider, st) ==
    LET st1 == [st EXCEPT !.attempted = Append(@, provider)]
    IN IF import_module(provider) \in CaughtOnLoad
       THEN [st1 EXCEPT !.warnings = Append(@, provider)]
       ELSE IF import_module(provider) # "ok"
       THEN [st1 EXCEPT !.error = import_module(provider)]
       ELSE LET st2 == [st1 EXCEPT !.built = Append(@, provider)]
            IN IF modules[provider].ctor = "raises"
               THEN [st2 EXCEPT !.error = "ProviderError"]
               ELSE [st2 EXCEPT
                        !.instances = SetItem(@, provider, Len(st2.built)),
                        !.loaded = IF provider \in DOMAIN st.instances
                                   THEN @ ELSE Append(@, provider)]

\* the loop of lines 59-67 over the list `ps`; an uncaught exception ends it
RECURSIVE LoadProviders(_, _)
LoadProviders(ps, st) ==
    IF ps = <<>> \/ st.error # "none" THEN st
    ELSE LoadProviders(Tail(ps), LoadProvider(Head(ps), st))

\* the check of lines 69-71 left out
NoProvidersCheck_Missing(st) == st

\* lines 69-71
NoProvidersCheck(st) ==
    IF st.error = "none" /\ DOMAIN st.instances = {}
    THEN [st EXCEPT !.error = "NoProvidersError"]
    ELSE st

\* lines 47-53: the list to load, or the type error
ResolveProviders(arg) ==
    IF arg.type # "NoneType" /\ arg.type # "list" THEN [error |-> "TypeError", list |-> <<>>]
    ELSE IF arg.type = "NoneType" THEN [error |-> "none", list |-> providerList]
    ELSE [error |-> "none", list |-> arg.elems]

NoName == [type |-> "unset", name |-> ""]

\* the record of one method call on the constructed object
NoCall == [op |-> "none", query |-> NoQuery, force |-> FALSE, descriptions |-> FALSE,
           provider |-> NoName, result |-> "none", items |-> <<>>, returned |-> <<>>,
           invoked |-> <<>>, asserted |-> {}, sorted |-> FALSE, lookups |-> <<>>,
           providerDict |-> EmptyDict]

Construct(arg) ==
    /\ phase = "new"
    /\ providers' = arg
    /\ LET r == ResolveProviders(arg)
           st == IF r.error # "none" THEN [NewLoad EXCEPT !.error = r.error]
                 ELSE NoProvidersCheck(LoadProviders(r.list, NewLoad))
       IN /\ providerInstances' = st.instances
          /\ loaded' = st.loaded
          /\ warnings' = st.warnings
          /\ attempted' = st.attempted
          /\ built' = st.built
          /\ initError' = st.error
          /\ phase' = IF st.error = "none" THEN "live" ELSE "failed"
          /\ order' \in Permutations_(DOMAIN st.instances)
    /\ UNCHANGED <<modules, call>>

-----------------------------------------------------------------------------
(* Provider behaviour: what a provider's refresh and search do when called *)

ProviderErrors == {"ValueError", "RuntimeError", "IOError"}

\* an <item-dict>, or a dict that lacks the relevance key
Items == {[relevance |-> r] : r \in 1..MaxRelevance} \cup {[name |-> "x"]}

SearchOutcomes ==
    {[raises |-> e, results |-> <<>>] : e \in ProviderErrors}
    \cup {[raises |-> "none", results |-> r] : r \in SeqsUpTo(Items, MaxResults)}

RefreshOutcomes == {"none"} \cup ProviderErrors

\* utilities.isItemDict: the minimal item shape is a mapping with a relevance key
isItemDict(item) == "relevance" \in DOMAIN item

Invocation(name, query, force, raises, results) ==
    [name |-> name, query |-> query, force |-> force, raises |-> raises,
     results |-> results]

-----------------------------------------------------------------------------
(* Indelve.refresh *)

\* lines 138-140: the loop over the dict, ended by the first exception
RECURSIVE RefreshLoop(_, _, _, _)
RefreshLoop(names, force, beh, st) ==
    IF names = <<>> \/ st.error # "none" THEN st
    ELSE LET name == Head(names)
             st1 == [st EXCEPT !.invoked =
                        Append(@, Invocation(name, NoQuery, force, beh[name], <<>>))]
         IN RefreshLoop(Tail(names), force, beh,
                        IF beh[name] # "none" THEN [st1 EXCEPT !.error = beh[name]]
                        ELSE st1)

\* refresh that calls each provider with the default force=False
Refresh_DefaultForce(force, beh) ==
    /\ phase = "live"
    /\ call.op = "none"
    /\ LET st == RefreshLoop(order, FALSE, beh, [invoked |-> <<>>, error |-> "none"])
       IN call' = [NoCall EXCEPT !.op = "refresh", !.force = force,
                                 !.invoked = st.invoked,
                                 !.result = IF st.error = "none" THEN "ok" ELSE st.error]
    /\ UNCHANGED <<modules, phase, providers, initError, providerInstances, order,
                   loaded, warnings, attempted, built>>

Refresh(force, beh) ==
    /\ phase = "live"
    /\ call.op = "none"
    /\ LET st == RefreshLoop(order, force, beh, [invoked |-> <<>>, error |-> "none"])
       IN call' = [NoCall EXCEPT !.op = "refresh", !.force = force,
                                 !.invoked = st.invoked,
                                 !.result = IF st.error = "none" THEN "ok" ELSE st.error]
    /\ UNCHANGED <<modules, phase, providers, initError, providerInstances, order,
                   loaded, warnings, attempted, built>>

-----------------------------------------------------------------------------
(* Indelve.search *)

\* the emptiness check of lines 152-153 left out
CheckQuery_NoEmptyCheck(query) ==
    IF query.type # "str" THEN "TypeError" ELSE "none"

\* lines 150-153
CheckQuery(query) ==
    IF query.type # "str" THEN "TypeError"
    ELSE IF Len(query.chars) = 0 THEN "ValueError"
    ELSE "none"

\* the exceptions of a provider's search that line 163 catches
CaughtOnSearch == {"ValueError"}

\* one trip round the loop with no try/except: ValueError propagates like the rest
SearchProvider_NoExcept(name, query, out, st) ==
    LET st1 == [st EXCEPT !.invoked =
                   Append(@, Invocation(name, query, FALSE, out.raises, out.results))]
    IN IF out.raises # "none" THEN [st1 EXCEPT !.error = out.raises]
       ELSE [st1 EXCEPT !.items = @ \o out.results]

\* one trip round the loop with a bare `except:`: every provider error is skipped
SearchProvider_BareExcept(name, query, out, st) ==
    LET st1 == [st EXCEPT !.invoked =
                   Append(@, Invocation(name, query, FALSE, out.raises, out.results))]
    IN IF out.raises # "none" THEN st1
       ELSE [st1 EXCEPT !.items = @ \o out.results]

\* lines 166-167: the positions of `items` the assert loop walks before the results
\* of the current provider are appended
AssertedPositions(items, results) == 1..Len(items)

\* one trip round the loop of lines 159-169, for provider `name`
SearchProvider(name, query, out, st) ==
    LET st1 == [st EXCEPT !.invoked =
                   Append(@, Invocation(name, query, FALSE, out.raises, out.results))]
        positions == AssertedPositions(st.items, out.results)
        combined == st.items \o out.results
        bad == {i \in positions : ~isItemDict(combined[i])}
    IN IF out.raises \in CaughtOnSearch THEN st1
       ELSE IF out.raises # "none" THEN [st1 EXCEPT !.error = out.raises]
       ELSE IF bad # {}
       THEN [st1 EXCEPT !.error = "AssertionError",
                        !.asserted = @ \cup {i \in positions : \A j \in bad : i <= j}]
       ELSE [st1 EXCEPT !.asserted = @ \cup positions, !.items = combined]

\* the loop of lines 159-169 over the dict
RECURSIVE SearchLoop(_, _, _, _)
SearchLoop(names, query, beh, st) ==
    IF names = <<>> \/ st.error # "none" THEN st
    ELSE SearchLoop(Tail(names), query, beh,
                    SearchProvider(Head(names), query, beh[Head(names)], st))

\* list.sort(key=...) is stable: x goes after every element whose key is <= its own
RECURSIVE InsertByRelevance(_, _)
InsertByRelevance(s, x) ==
    IF s = <<>> THEN <<x>>
    ELSE IF s[Len(s)].relevance <= x.relevance THEN Append(s, x)
    ELSE Append(InsertByRelevance(SubSeq(s, 1, Len(s) - 1), x), s[Len(s)])

RECURSIVE SortedByRelevance(_)
SortedByRelevance(items) ==
    IF items = <<>> THEN <<>>
    ELSE InsertByRelevance(SortedByRelevance(SubSeq(items, 1, Len(items) - 1)),
                           items[Len(items)])

\* line 172 with the sort left out
SortItems_Unsorted(items) ==
    IF \E i \in 1..Len(items) : "relevance" \notin DOMAIN items[i]
    THEN [error |-> "KeyError", items |-> <<>>]
    ELSE [error |-> "none", items |-> items]

\* line 172: items.sort(key=lambda a:a["relevance"]); a missing key raises KeyError
SortItems(items) ==
    IF \E i \in 1..Len(items) : "relevance" \notin DOMAIN items[i]
    THEN [error |-> "KeyError", items |-> <<>>]
    ELSE [error |-> "none", items |-> SortedByRelevance(items)]

Search(query, beh) ==
    /\ phase = "live"
    /\ call.op = "none"
    /\ LET c == [NoCall EXCEPT !.op = "search", !.query = query]
           bad == CheckQuery(query)
           st == SearchLoop(order, query, beh,
                            [items |-> <<>>, invoked |-> <<>>, asserted |-> {},
                             error |-> "none"])
           c1 == [c EXCEPT !.invoked = st.invoked, !.asserted = st.asserted,
                           !.items = st.items]
           r == SortItems(st.items)
       IN call' = IF bad # "none" THEN [c EXCEPT !.result = bad]
                  ELSE IF st.error # "none" THEN [c1 EXCEPT !.result = st.error]
                  ELSE IF r.error # "none"
                  THEN [c1 EXCEPT !.sorted = TRUE, !.result = r.error]
                  ELSE [c1 EXCEPT !.sorted = TRUE, !.result = "ok",
                                  !.returned = r.items]
    /\ UNCHANGED <<modules, phase, providers, initError, providerInstances, order,
                   loaded, warnings, attempted, built>>

-----------------------------------------------------------------------------
(* Indelve.getProviderDescription and Indelve.listProviders *)

NameArgs == {[type |-> "str", name |-> id] : id \in Identifiers}
            \cup {[type |-> "int", name |-> ""]}

\* lines 110-127, with descriptionDict the provider class's description attribute
getProviderDescription(provider, descriptionDict) ==
    IF provider.type # "str" THEN [error |-> "ValueError", description |-> <<>>]
    ELSE IF import_module(provider.name) = "ImportError"
    THEN [error |-> "ProviderLoadError", description |-> <<>>]
    ELSE IF import_module(provider.name) # "ok"
    THEN [error |-> import_module(provider.name), description |-> <<>>]
    ELSE IF "short" \notin DOMAIN descriptionDict \/ "long" \notin DOMAIN descriptionDict
    THEN [error |-> "NotImplementedError", description |-> <<>>]
    ELSE [error |-> "none", description |-> descriptionDict]

GetProviderDescription(provider, descriptionDict) ==
    /\ phase = "live"
    /\ call.op = "none"
    /\ LET r == getProviderDescription(provider, descriptionDict)
       IN call' = [NoCall EXCEPT
                      !.op = "getProviderDescription", !.provider = provider,
                      !.result = IF r.error = "none" THEN "ok" ELSE r.error,
                      !.providerDict = IF r.error = "none" THEN r.description
                                       ELSE EmptyDict]
    /\ UNCHANGED <<modules, phase, providers, initError, providerInstances, order,
                   loaded, warnings, attempted, built>>

\* lines 94-97: the loop over the manifest; the first exception leaves the loop
RECURSIVE DescribeLoop(_, _, _)
DescribeLoop(names, descs, st) ==
    IF names = <<>> \/ st.error # "none" THEN st
    ELSE LET provider == Head(names)
             r == getProviderDescription([type |-> "str", name |-> provider],
                                         descs[provider])
             st1 == [st EXCEPT !.lookups = Append(@, provider)]
         IN DescribeLoop(Tail(names), descs,
                         IF r.error # "none" THEN [st1 EXCEPT !.error = r.error]
                         ELSE [st1 EXCEPT !.providerDict =
                                  SetItem(@, provider, r.description)])

ListProviders(descriptions, descs) ==
    /\ phase = "live"
    /\ call.op = "none"
    /\ LET c == [NoCall EXCEPT !.op = "listProviders", !.descriptions = descriptions]
           st == DescribeLoop(providerList, descs,
                              [lookups |-> <<>>, providerDict |-> EmptyDict,
                               error |-> "none"])
       IN call' = IF ~descriptions
                  THEN [c EXCEPT !.result = "ok", !.returned = providerList]
                  ELSE IF st.error # "none"
                  THEN [c EXCEPT !.result = st.error, !.lookups = st.lookups]
                  ELSE [c EXCEPT !.result = "ok", !.lookups = st.lookups,
                                 !.providerDict = st.providerDict]
    /\ UNCHANGED <<modules, phase, providers, initError, providerInstances, order,
                   loaded, warnings, attempted, built>>

-----------------------------------------------------------------------------
\* The call returns (or raises) to the caller, which consumes its outcome; the
\* object is then ready for the next call.
CallReturns ==
    /\ call.op # "none"
    /\ call' = NoCall
    /\ UNCHANGED <<modules, phase, providers, initError, providerInstances, order,
                   loaded, warnings, attempted, built>>

-----------------------------------------------------------------------------
Init ==
    /\ modules \in Environments
    /\ phase = "new"
    /\ providers = NoArg
    /\ initError = "none"
    /\ providerInstances = EmptyDict
    /\ order = <<>>
    /\ loaded = <<>>
    /\ warnings = <<>>
    /\ attempted = <<>>
    /\ built = <<>>
    /\ call = NoCall

\* a method can be called once the object exists and the previous call is over
Ready == phase = "live" /\ call.op = "none"

\* the provider behaviours a search can meet: none when the query is rejected
\* before the loop, since no provider is then called
SearchBehaviours(query) ==
    IF CheckQuery(query) = "none" THEN [DOMAIN providerInstances -> SearchOutcomes]
    ELSE {[id \in DOMAIN providerInstances |-> [raises |-> "none", results |-> <<>>]]}

Next ==
    \/ \E arg \in ProviderArgs : Construct(arg)
    \/ Ready /\ \E force \in BOOLEAN, beh \in [DOMAIN providerInstances -> RefreshOutcomes] :
                   Refresh(force, beh)
    \/ Ready /\ \E query \in Queries : \E beh \in SearchBehaviours(query) :
                   Search(query, beh)
    \/ Ready /\ \E provider \in NameArgs, descriptionDict \in Descriptions :
                   GetProviderDescription(provider, descriptionDict)
    \/ Ready /\ \E descriptions \in BOOLEAN, descs \in [Range(providerList) -> Descriptions] :
                   ListProviders(descriptions, descs)
    \/ CallReturns

Spec == Init /\ [][Next]_vars

-----------------------------------------------------------------------------
(* Vocabulary of the properties *)

\* the identifiers of list l whose module imports
Importable(l) == {l[i] : i \in {j \in 1..Len(l) : import_module(l[j]) = "ok"}}

\* __init__ was called with a list
ConstructedFromList == phase # "new" /\ providers.type = "list"

\* the names of the providers a call invoked, in invocation order
InvokedNames == [i \in 1..Len(call.invoked) |-> call.invoked[i].name]

\* the results of the invocations that returned, concatenated in invocation order
RECURSIVE Contributed(_)
Contributed(invoked) ==
    IF invoked = <<>> THEN <<>>
    ELSE Contributed(SubSeq(invoked, 1, Len(invoked) - 1))
         \o (IF invoked[Len(invoked)].raises = "none"
             THEN invoked[Len(invoked)].results ELSE <<>>)

IsPrefix(s, t) == Len(s) <= Len(t) /\ \A i \in 1..Len(s) : s[i] = t[i]

Count(s, x) == Cardinality({i \in 1..Len(s) : s[i] = x})

SameBag(s, t) == Len(s) = Len(t) /\ \A x \in Range(s) \cup Range(t) : Count(s, x) = Count(t, x)

NoDuplicates(s) == \A i, j \in 1..Len(s) : s[i] = s[j] => i = j

-----------------------------------------------------------------------------
(* C1 *)

-----------------------------------------------------------------------------
(* C2 *)

\* C2: construction with a list whose identifiers all fail to import raises
\* NoProvidersError after every identifier was attempted, with one
\* ProviderLoadWarning issued per entry of the list; and no constructed object
\* has an empty providerInstances.
C2_AllInvalidIsFatal ==
    /\ (ConstructedFromList /\ Importable(providers.elems) = {})
           => /\ phase = "failed"
              /\ initError = "NoProvidersError"
              /\ attempted = providers.elems
              /\ warnings = providers.elems
              /\ built = <<>>
    /\ phase = "live" => DOMAIN providerInstances # {}

C2_Witness ==
    /\ ConstructedFromList
    /\ Len(providers.elems) = 2
    /\ providers.elems[1] # providers.elems[2]
    /\ Importable(providers.elems) = {}
    /\ initError = "NoProvidersError"
    /\ Len(warnings) = 2

-----------------------------------------------------------------------------
(* C3 *)

\* C3: search with an empty string raises ValueError, search with a non-string
\* raises TypeError, and in both cases no provider's search was invoked.
C3_QueryValidatedFirst ==
    call.op = "search" =>
        /\ (call.query.type = "str" /\ call.query.chars = <<>>)
               => (call.result = "ValueError" /\ call.invoked = <<>>)
        /\ call.query.type # "str"
               => (call.result = "TypeError" /\ call.invoked = <<>>)

C3_Witness ==
    /\ call.op = "search"
    /\ call.query = [type |-> "str", chars |-> <<>>]
    /\ call.result = "ValueError"
    /\ call.invoked = <<>>
    /\ Cardinality(DOMAIN providerInstances) = 2

-----------------------------------------------------------------------------
(* C4 *)

\* C4: the list search returns is ascending by relevance: each item's relevance
\* is at most that of the item after it, whatever the order of the provider calls.
C4_ReturnedAscending ==
    (call.op = "search" /\ call.result = "ok") =>
        \A i \in 1..(Len(call.returned) - 1) :
            call.returned[i].relevance <= call.returned[i + 1].relevance

\* providers returning relevances 3,1 and 2 yield 1,2,3
C4_Witness ==
    /\ call.op = "search"
    /\ call.result = "ok"
    /\ Len(call.invoked) = 2
    /\ call.invoked[1].results = <<[relevance |-> 3], [relevance |-> 1]>>
    /\ call.invoked[2].results = <<[relevance |-> 2]>>
    /\ call.returned = <<[relevance |-> 1], [relevance |-> 2], [relevance |-> 3]>>

-----------------------------------------------------------------------------
(* C5 *)

\* C5: a provider that raises ValueError contributes nothing and does not stop
\* the search: the loop goes on to the next provider (or to the sort after the
\* last one), and a search that returns has called every loaded provider and
\* returns, as a bag, exactly the items of the providers that did not raise it.
C5_ValueErrorSkipsProvider ==
    call.op = "search" =>
        /\ \A i \in 1..Len(call.invoked) :
              call.invoked[i].raises = "ValueError" =>
                  /\ i < Len(order) => Len(call.invoked) > i
                  /\ i = Len(order) => call.sorted
        /\ call.result = "ok" =>
              /\ InvokedNames = order
              /\ SameBag(call.returned, Contributed(call.invoked))

C5_Witness ==
    /\ call.op = "search"
    /\ call.result = "ok"
    /\ Len(call.invoked) = 2
    /\ call.invoked[1].raises = "ValueError"
    /\ call.invoked[2].raises = "none"
    /\ Len(call.invoked[2].results) = 2
    /\ call.invoked[2].results[1] = call.invoked[2].results[2]
    /\ Len(call.returned) = 2

-----------------------------------------------------------------------------
(* C6 *)

\* C6: when a provider's search raises anything but ValueError, that error is
\* the outcome of the orchestrator's search: no list is returned, the sort is
\* not reached, and no provider after the failing one is invoked.
C6_OtherErrorsPropagate ==
    call.op = "search" =>
        \A i \in 1..Len(call.invoked) :
            call.invoked[i].raises \notin {"none", "ValueError"} =>
                /\ i = Len(call.invoked)
                /\ call.result = call.invoked[i].raises
                /\ call.returned = <<>>
                /\ ~call.sorted

C6_Witness ==
    /\ call.op = "search"
    /\ Len(order) = 2
    /\ Len(call.invoked) = 1
    /\ call.invoked[1].raises = "IOError"
    /\ call.result = "IOError"

-----------------------------------------------------------------------------
(* C7 *)

\* C7: listProviders with descriptions looks up the description of every
\* identifier of the manifest, even when the import of one of them fails.
C7_EnumerationNotAborted ==
    (call.op = "listProviders" /\ call.descriptions) => call.lookups = providerList

-----------------------------------------------------------------------------
(* C8 *)

\* C8: every item of the combined list was asserted to be an item dict before
\* the sort, and a malformed item returned by any provider whose results are
\* taken makes the search fail with AssertionError.
C8_EveryItemAsserted ==
    call.op = "search" =>
        /\ call.sorted => call.asserted = 1..Len(call.items)
        /\ (/\ \E i \in 1..Len(call.invoked) :
                  \E k \in 1..Len(call.invoked[i].results) :
                      ~isItemDict(call.invoked[i].results[k])
            /\ \A i \in 1..Len(call.invoked) :
                  call.invoked[i].raises \in {"none", "ValueError"})
               => call.result = "AssertionError"

-----------------------------------------------------------------------------
(* C9 *)

\* C9: during construction at most one provider instance is built per
\* identifier, so no entry of providerInstances is written twice.
C9_BuiltOncePerIdentifier ==
    \A id \in Identifiers : Count(built, id) <= 1

-----------------------------------------------------------------------------
(* C10 *)

\* C10 as stated: refresh and search invoke the providers in the order in which
\* their identifiers were loaded into providerInstances (a prefix of it when a
\* provider's failure propagates).
C10_AsStated ==
    call.op \in {"refresh", "search"} => IsPrefix(InvokedNames, loaded)

\* what one refresh or search call did, against the dict's iteration order
C10_CallInDictOrder ==
    /\ phase = "live" => (Range(order) = DOMAIN providerInstances /\ NoDuplicates(order))
    /\ call.op \in {"refresh", "search"} =>
          /\ IsPrefix(InvokedNames, order)
          /\ NoDuplicates(InvokedNames)
          /\ (call.result = "ok" => InvokedNames = order)
          /\ \A i \in 1..Len(call.invoked) :
                /\ call.invoked[i].force = call.force
                /\ call.invoked[i].query = (IF call.op = "search" THEN call.query ELSE NoQuery)
                /\ i < Len(call.invoked) => call.invoked[i].raises \in {"none", "ValueError"}

\* C10 (amended): within one refresh or search call the providers are invoked
\* one at a time in the iteration order of providerInstances, an order over the
\* loaded identifiers that is fixed once construction ends and need not be the
\* order in which they were loaded: the providers invoked are that order (a
\* prefix of it when a failure propagates), each is invoked at most once per
\* call, refresh passes the caller's force to each and search the query.
C10_InvokedInDictOrder ==
    [][C10_CallInDictOrder' /\ (phase = "live" => order' = order)]_vars

C10_Witness ==
    /\ call.op = "refresh"
    /\ call.force
    /\ call.result = "ok"
    /\ Len(call.invoked) = 2
    /\ InvokedNames = order
    /\ order # loaded

====
